---- MODULE Spec2Model ----
(***************************************************************************)
(* The megawatcher of state/megawatcher.go: the allWatcher loop, the       *)
(* allInfo snapshot it owns, and the xStateWatcher handles served by it.   *)
(*                                                                         *)
(* One step of the model is one iteration of allWatcher.loop (a select     *)
(* branch followed by respond), or one call made from outside the loop     *)
(* (allWatcher.Stop, a Next or Stop that finds the tomb dead).             *)
(*                                                                         *)
(* The request and reply channels are unbuffered: a request is "issued"    *)
(* at the moment the loop receives it, and a reply is "returned" at the    *)
(* moment the loop sends it.  `out' lists the calls that returned during   *)
(* the last step.                                                          *)
(*                                                                         *)
(* The upgrade worker of cmd/jujud/upgrade.go: upgradeWorkerContext.run    *)
(* and runUpgrades, one step per call the worker makes to the agent, the   *)
(* state or the upgrade steps.  `returned' holds what run returned in the  *)
(* last step.                                                              *)
(***************************************************************************)
EXTENDS Integers, Sequences, FiniteSets, TLC

\* ---------------------------------------------------------------- bounds
MaxRevno == 3          \* changes are accepted while latestRevno < MaxRevno
MoreRevno == 1         \* SpecDeep accepts this many revisions more
MaxPending == 2        \* Next requests one watcher may have outstanding
LifeRevno == 2         \* SpecLife accepts changes while latestRevno < LifeRevno
MaxJobs == 2           \* jobs a machine agent is given
MaxRuns == 3           \* times the upgrade worker is started

Ids == {"e", "f"}      \* entity ids known to the backing
Vals == {"a", "b"}     \* payloads an entity can carry
Watchers == {"w1", "w2"}

\* ------------------------------------------------------------- constants
Nil == 0                       \* a nil *list.Element in the entities map
NotFound == "NotFound"         \* mgo.ErrNotFound
ErrE == "E"                    \* any other error of the backing
NoPanic == "none"
NoVal == "absent"              \* the id is not in a client's map

ErrNil == "nil"
ErrStillAlive == "ErrStillAlive"
ErrDying == "tomb: dying"
errWatcherStopped == "state watcher was stopped"

JobManageEnviron == "JobManageEnviron"
JobHostUnits == "JobHostUnits"
JobOther == "JobOther"         \* any job without an upgrade target
Jobs == {JobManageEnviron, JobHostUnits, JobOther}

DatabaseMaster == "databaseMaster"
StateServer == "stateServer"
HostMachine == "hostMachine"
NoTarget == ""

Min == 5                       \* attempts of getUpgradeRetryStrategy
ErrMongo == "ensureMongoServer failed"
ErrNoInfo == "no state info available"
ErrOpen == "state.Open failed"
ErrMaster == "isMachineMaster failed"
ErrStep == "upgrade step failed"
ErrAPILost == "API connection lost during upgrade"
ErrWrite == "cannot write agent configuration"

VARIABLES
    phase,        \* allWatcher.run: "new", "loading", "running", "dead", "panicked"
    watching,     \* the loop's channel is registered with backing.watch
    dying,        \* tomb: the dying channel is closed
    reason,       \* tomb: the reason recorded by Kill
    latestRevno,  \* allInfo.latestRevno
    entities,     \* allInfo.entities: id -> element (Nil when absent)
    list,         \* allInfo.list, front first
    revno,        \* xStateWatcher.revno
    stopped,      \* xStateWatcher.stopped
    waiting,      \* allWatcher.waiting: w -> its requests, head first (<<>>: absent)
    out,          \* the calls that returned in the last step
    store,        \* history: what the backing last reported for each id
    view,         \* history: the map a client builds from the deltas returned to it
    sawAlive,     \* history: ids returned to the client with Removed = false
    hi            \* history: highest entry revno returned to the client

VARIABLES
    jobs,             \* upgradeWorkerContext.jobs
    UpgradeComplete,  \* the channel: "open", "closed"; "panic" after a second close
    upgradedTo,       \* agentConfig.UpgradedToVersion: "old" or "current"
    status,           \* what setMachineStatus last set
    worker,           \* the running worker: where run is, and its locals
    runs,             \* history: times the worker was started
    returned          \* what run returned in the last step

upvars == <<jobs, UpgradeComplete, upgradedTo, status, worker, runs, returned>>

vars == <<phase, watching, dying, reason, latestRevno, entities, list, revno,
          stopped, waiting, out, store, view, sawAlive, hi,
          jobs, UpgradeComplete, upgradedTo, status, worker, runs, returned>>

\* ------------------------------------------------------------- helpers
Range(s) == {s[i] : i \in DOMAIN s}

Perms(S) == {f \in [1..Cardinality(S) -> S] : \A i, j \in 1..Cardinality(S) : f[i] = f[j] => i = j}

\* An entity info carries its id; the backing reads it back.
Info(id, v) == [id |-> id, val |-> v]

entityIdForInfo(info) == info.id

\* container/list: an element is identified by the creationRevno of its entry.
PushFront(l, e) == <<e>> \o l

Remove(l, h) == SelectSeq(l, LAMBDA e : e.creationRevno # h)

MoveToFront(l, h) == SelectSeq(l, LAMBDA e : e.creationRevno = h) \o Remove(l, h)

\* The entry of element h, and the list with that entry overwritten.
Elem(l, h) == CHOOSE e \in Range(l) : e.creationRevno = h

SetEntry(l, h, e2) == [i \in DOMAIN l |-> IF l[i].creationRevno = h THEN e2 ELSE l[i]]

\* ------------------------------------------------------------- allInfo
newAllInfo == [latestRevno |-> 0, entities |-> [id \in Ids |-> Nil], list |-> <<>>, panic |-> NoPanic]

entityEntry(info, r) ==
    [revno |-> r, creationRevno |-> r, removed |-> FALSE, refCount |-> 0, info |-> info]

add(a, id, info) ==
    IF a.entities[id] # Nil
    THEN [a EXCEPT !.panic = "adding new entry with duplicate id"]
    ELSE LET r == a.latestRevno + 1
         IN  [a EXCEPT !.latestRevno = r,
                       !.list = PushFront(a.list, entityEntry(info, r)),
                       !.entities[id] = r]

decRef(a, h, id) ==
    LET entry == Elem(a.list, h)
        rc == entry.refCount - 1
        a1 == [a EXCEPT !.list = SetEntry(a.list, h, [entry EXCEPT !.refCount = rc])]
    IN  IF rc > 0 THEN a1
        ELSE IF rc < 0 THEN [a1 EXCEPT !.panic = "negative reference count"]
        ELSE IF ~entry.removed THEN a1
        ELSE IF a1.entities[id] = Nil
             THEN [a1 EXCEPT !.panic = "delete of non-existent entry"]
             ELSE [a1 EXCEPT !.entities[id] = Nil,
                             !.list = Remove(a1.list, a1.entities[id])]

\* delete that leaves the entry where it is.
delete_keepsEntry(a, id) == a

delete(a, id) ==
    IF a.entities[id] = Nil THEN a
    ELSE [a EXCEPT !.entities[id] = Nil, !.list = Remove(a.list, a.entities[id])]

\* markRemoved that keeps an entry nothing has seen.
markRemoved_keepsUnseen(a, id) ==
    IF a.entities[id] = Nil THEN a
    ELSE LET h == a.entities[id]
             entry == Elem(a.list, h)
             r == a.latestRevno + 1
         IN  IF entry.removed THEN a
             ELSE [a EXCEPT !.latestRevno = r,
                            !.list = MoveToFront(
                                SetEntry(a.list, h, [entry EXCEPT !.revno = r, !.removed = TRUE]), h)]

\* markRemoved that counts no revision when it deletes the entry outright.
markRemoved_noRevnoOnDelete(a, id) ==
    IF a.entities[id] = Nil THEN a
    ELSE LET h == a.entities[id]
             entry == Elem(a.list, h)
             r == a.latestRevno + 1
         IN  IF entry.removed THEN a
             ELSE IF entry.refCount = 0 THEN delete(a, id)
             ELSE [a EXCEPT !.latestRevno = r,
                            !.list = MoveToFront(
                                SetEntry(a.list, h, [entry EXCEPT !.revno = r, !.removed = TRUE]), h)]

\* markRemoved that leaves the entry's revno as it was.
markRemoved_keepsEntryRevno(a, id) ==
    IF a.entities[id] = Nil THEN a
    ELSE LET h == a.entities[id]
             entry == Elem(a.list, h)
             r == a.latestRevno + 1
         IN  IF entry.removed THEN a
             ELSE IF entry.refCount = 0 THEN delete([a EXCEPT !.latestRevno = r], id)
             ELSE [a EXCEPT !.latestRevno = r,
                            !.list = MoveToFront(
                                SetEntry(a.list, h, [entry EXCEPT !.removed = TRUE]), h)]

\* markRemoved that does not look at the removed flag.
markRemoved_removesAgain(a, id) ==
    IF a.entities[id] = Nil THEN a
    ELSE LET h == a.entities[id]
             entry == Elem(a.list, h)
             r == a.latestRevno + 1
         IN  IF entry.refCount = 0 THEN delete([a EXCEPT !.latestRevno = r], id)
             ELSE [a EXCEPT !.latestRevno = r,
                            !.list = MoveToFront(
                                SetEntry(a.list, h, [entry EXCEPT !.revno = r, !.removed = TRUE]), h)]

markRemoved(a, id) ==
    IF a.entities[id] = Nil THEN a
    ELSE LET h == a.entities[id]
             entry == Elem(a.list, h)
             r == a.latestRevno + 1
         IN  IF entry.removed THEN a
             ELSE IF entry.refCount = 0 THEN delete([a EXCEPT !.latestRevno = r], id)
             ELSE [a EXCEPT !.latestRevno = r,
                            !.list = MoveToFront(
                                SetEntry(a.list, h, [entry EXCEPT !.revno = r, !.removed = TRUE]), h)]

\* update that leaves the entry where it is in the list.
update_staysInPlace(a, id, info) ==
    IF a.entities[id] = Nil THEN add(a, id, info)
    ELSE LET h == a.entities[id]
             entry == Elem(a.list, h)
             r == a.latestRevno + 1
         IN  IF info = entry.info THEN a
             ELSE [a EXCEPT !.latestRevno = r,
                            !.list = SetEntry(a.list, h, [entry EXCEPT !.revno = r, !.info = info])]

\* update that does not compare the info with the stored one.
update_alwaysBumps(a, id, info) ==
    IF a.entities[id] = Nil THEN add(a, id, info)
    ELSE LET h == a.entities[id]
             entry == Elem(a.list, h)
             r == a.latestRevno + 1
         IN  [a EXCEPT !.latestRevno = r,
                       !.list = MoveToFront(
                           SetEntry(a.list, h, [entry EXCEPT !.revno = r, !.info = info]), h)]

\* update that replaces the entry by a fresh one, created at the new revno.
update_recreates(a, id, info) ==
    IF a.entities[id] = Nil THEN add(a, id, info)
    ELSE LET h == a.entities[id]
             entry == Elem(a.list, h)
             r == a.latestRevno + 1
         IN  IF info = entry.info THEN a
             ELSE [a EXCEPT !.latestRevno = r,
                            !.entities[id] = r,
                            !.list = MoveToFront(
                                SetEntry(a.list, h, [entry EXCEPT !.revno = r,
                                                                  !.creationRevno = r,
                                                                  !.info = info]), r)]

\* update that counts a revision before it compares the info.
update_bumpsLatest(a, id, info) ==
    IF a.entities[id] = Nil THEN add(a, id, info)
    ELSE LET h == a.entities[id]
             entry == Elem(a.list, h)
             r == a.latestRevno + 1
         IN  IF info = entry.info THEN [a EXCEPT !.latestRevno = r]
             ELSE [a EXCEPT !.latestRevno = r,
                            !.list = MoveToFront(
                                SetEntry(a.list, h, [entry EXCEPT !.revno = r, !.info = info]), h)]

update(a, id, info) ==
    IF a.entities[id] = Nil THEN add(a, id, info)
    ELSE LET h == a.entities[id]
             entry == Elem(a.list, h)
             r == a.latestRevno + 1
         IN  IF info = entry.info THEN a
             ELSE [a EXCEPT !.latestRevno = r,
                            !.list = MoveToFront(
                                SetEntry(a.list, h, [entry EXCEPT !.revno = r, !.info = info]), h)]

\* changesSince, first loop: the number of entries in front of the first
\* one with revno <= r.
newerPrefix(l, r) ==
    LET old == {i \in DOMAIN l : l[i].revno <= r}
    IN  IF old = {} THEN Len(l)
        ELSE (CHOOSE i \in old : \A j \in old : i <= j) - 1

\* changesSince that reports the newer entries as it meets them, front first.
changedEntries_frontFirst(l, r) ==
    SelectSeq(SubSeq(l, 1, newerPrefix(l, r)), LAMBDA e : ~(e.removed /\ e.creationRevno > r))

\* changesSince, second loop: walk back to the front from there, leaving
\* out what was created and removed since r.
changedEntries(l, r) ==
    LET n == newerPrefix(l, r)
        back == [i \in 1..n |-> l[n + 1 - i]]
    IN  SelectSeq(back, LAMBDA e : ~(e.removed /\ e.creationRevno > r))

Delta(e) == [Removed |-> e.removed, Entity |-> e.info]

changesSince(a, r) ==
    LET es == changedEntries(a.list, r) IN [i \in DOMAIN es |-> Delta(es[i])]

\* ------------------------------------------------------------ allWatcher
\* The loop works on s = [a, revno, stopped, waiting, out]: the allInfo and
\* the fields of the watchers it maintains, and the replies it has sent.

handles(l) == [i \in DOMAIN l |-> l[i].creationRevno]

RECURSIVE seenWalk(_, _, _)
seenWalk(a, hs, r) ==
    IF hs = <<>> \/ a.panic # NoPanic THEN a
    ELSE LET h == Head(hs)
             entry == Elem(a.list, h)
         IN  IF entry.revno <= r THEN a
             ELSE IF entry.creationRevno > r
             THEN IF ~entry.removed
                  THEN seenWalk([a EXCEPT !.list = SetEntry(a.list, h,
                                     [entry EXCEPT !.refCount = entry.refCount + 1])],
                                Tail(hs), r)
                  ELSE seenWalk(a, Tail(hs), r)
             ELSE IF entry.removed
             THEN seenWalk(decRef(a, h, entityIdForInfo(entry.info)), Tail(hs), r)
             ELSE seenWalk(a, Tail(hs), r)

seen(a, r) == seenWalk(a, handles(a.list), r)

RECURSIVE leaveWalk(_, _, _)
leaveWalk(a, hs, r) ==
    IF hs = <<>> \/ a.panic # NoPanic THEN a
    ELSE LET h == Head(hs)
             entry == Elem(a.list, h)
         IN  IF entry.creationRevno <= r /\ ~(entry.removed /\ entry.revno <= r)
             THEN leaveWalk(decRef(a, h, entityIdForInfo(entry.info)), Tail(hs), r)
             ELSE leaveWalk(a, Tail(hs), r)

\* leave that passes over the entries marked removed.
leave_skipsRemoved(a, r) ==
    leaveWalk(a, handles(SelectSeq(a.list, LAMBDA e : ~e.removed)), r)

\* leave that takes the watcher to have seen every entry.
leave_seenAll(a, r) == leaveWalk(a, handles(a.list), a.latestRevno)

leave(a, r) == leaveWalk(a, handles(a.list), r)

\* What a call returns: Next gives (changes, err), Stop gives err.  revs is
\* history: the entry revno behind each delta; again is history: the Stop
\* found the watcher stopped already; upd is history: the ids the watcher has seen for
\* which updates, and no removal, were processed since its previous reply.
NextReply(w, req, changes, revs, upd) ==
    [op |-> "Next", w |-> w, req |-> req, ok |-> TRUE, changes |-> changes,
     err |-> ErrNil, revs |-> revs, again |-> FALSE, upd |-> upd]

NextError(w, req, err) ==
    [op |-> "Next", w |-> w, req |-> req, ok |-> FALSE, changes |-> <<>>,
     err |-> err, revs |-> <<>>, again |-> FALSE, upd |-> {}]

StopReturn(w, err, again) ==
    [op |-> "Stop", w |-> w, req |-> 0, ok |-> FALSE, changes |-> <<>>,
     err |-> err, revs |-> <<>>, again |-> again, upd |-> {}]

\* loop returns err to run.
LoopReturn(err) ==
    [op |-> "loop", w |-> "", req |-> 0, ok |-> FALSE, changes |-> <<>>,
     err |-> err, revs |-> <<>>, again |-> FALSE, upd |-> {}]

\* handle of a Next request that queues it whatever the watcher's state.
handleNext_queuesStopped(s, w, req) ==
    [s EXCEPT !.waiting[w] = <<req>> \o @]

\* handle of a Next request, named req.
handleNext(s, w, req) ==
    IF s.stopped[w]
    THEN [s EXCEPT !.out = Append(@, NextError(w, req, errWatcherStopped))]
    ELSE [s EXCEPT !.waiting[w] = <<req>> \o @]

\* handle of a stop request that leaves the watcher's requests queued.
handleStop_keepsWaiting(s, w) ==
    IF s.stopped[w]
    THEN [s EXCEPT !.out = Append(@, StopReturn(w, ErrNil, TRUE))]
    ELSE [s EXCEPT !.out = Append(@, StopReturn(w, ErrNil, FALSE)),
                   !.stopped[w] = TRUE,
                   !.a = leave(s.a, s.revno[w])]

\* handle of a stop request that leaves again when the watcher is stopped.
handleStop_leavesAgain(s, w) ==
    [s EXCEPT !.out = @ \o [i \in DOMAIN s.waiting[w] |->
                                NextError(w, s.waiting[w][i], errWatcherStopped)]
                          \o <<StopReturn(w, ErrNil, s.stopped[w])>>,
              !.waiting[w] = <<>>,
              !.stopped[w] = TRUE,
              !.a = leave(s.a, s.revno[w])]

\* handle of a stop request (reply = nil); Stop itself returns nil.
handleStop(s, w) ==
    IF s.stopped[w]
    THEN [s EXCEPT !.out = Append(@, StopReturn(w, ErrNil, TRUE))]
    ELSE [s EXCEPT !.out = @ \o [i \in DOMAIN s.waiting[w] |->
                                    NextError(w, s.waiting[w][i], errWatcherStopped)]
                              \o <<StopReturn(w, ErrNil, FALSE)>>,
                   !.waiting[w] = <<>>,
                   !.stopped[w] = TRUE,
                   !.a = leave(s.a, s.revno[w])]

\* History quoted by a reply to w, whose revno is r: the ids w has seen
\* whose entry has been updated since revno r and not removed since.  The
\* entry is older than r and either alive, with w holding the id, or it was
\* removed already when w was last replied to, and w has been told so.
Updated(l, w, r) ==
    {id \in sawAlive[w] : \E i \in DOMAIN l :
        /\ entityIdForInfo(l[i].info) = id
        /\ l[i].creationRevno <= r /\ r < l[i].revno
        /\ l[i].removed <=> view[w][id] = NoVal}

\* respond that replies without advancing the watcher's revno.
respondOne_keepsRevno(s, w) ==
    LET r == s.revno[w]
        changes == changesSince(s.a, r)
        es == changedEntries(s.a.list, r)
    IN  IF Len(changes) = 0 THEN s
        ELSE [s EXCEPT !.out = Append(@, NextReply(w, Head(s.waiting[w]), changes,
                                                   [i \in DOMAIN es |-> es[i].revno],
                                                   Updated(s.a.list, w, r))),
                       !.waiting[w] = Tail(@),
                       !.a = seen(s.a, r)]

\* respond that replies whether or not there are changes.
respondOne_repliesEmpty(s, w) ==
    LET r == s.revno[w]
        changes == changesSince(s.a, r)
        es == changedEntries(s.a.list, r)
    IN  [s EXCEPT !.revno[w] = s.a.latestRevno,
                  !.out = Append(@, NextReply(w, Head(s.waiting[w]), changes,
                                              [i \in DOMAIN es |-> es[i].revno],
                                              Updated(s.a.list, w, r))),
                  !.waiting[w] = Tail(@),
                  !.a = seen(s.a, r)]

\* respond that replies to every queued request of the watcher at once.
respondOne_repliesAll(s, w) ==
    LET r == s.revno[w]
        changes == changesSince(s.a, r)
        es == changedEntries(s.a.list, r)
    IN  IF Len(changes) = 0 THEN s
        ELSE [s EXCEPT !.revno[w] = s.a.latestRevno,
                       !.out = @ \o [i \in DOMAIN s.waiting[w] |->
                                        NextReply(w, s.waiting[w][i], changes,
                                                  [k \in DOMAIN es |-> es[k].revno],
                                                  Updated(s.a.list, w, r))],
                       !.waiting[w] = <<>>,
                       !.a = seen(s.a, r)]

\* respond that advances the watcher to the revno of the newest entry sent.
respondOne_newestEntryRevno(s, w) ==
    LET r == s.revno[w]
        changes == changesSince(s.a, r)
        es == changedEntries(s.a.list, r)
    IN  IF Len(changes) = 0 THEN s
        ELSE [s EXCEPT !.revno[w] = (CHOOSE e \in Range(es) :
                                        \A f \in Range(es) : f.revno <= e.revno).revno,
                       !.out = Append(@, NextReply(w, Head(s.waiting[w]), changes,
                                                   [i \in DOMAIN es |-> es[i].revno],
                                                   Updated(s.a.list, w, r))),
                       !.waiting[w] = Tail(@),
                       !.a = seen(s.a, r)]

\* One iteration of respond's loop, for watcher w.
respondOne(s, w) ==
    LET r == s.revno[w]
        changes == changesSince(s.a, r)
        es == changedEntries(s.a.list, r)
    IN  IF Len(changes) = 0 THEN s
        ELSE [s EXCEPT !.revno[w] = s.a.latestRevno,
                       !.out = Append(@, NextReply(w, Head(s.waiting[w]), changes,
                                                   [i \in DOMAIN es |-> es[i].revno],
                                                   Updated(s.a.list, w, r))),
                       !.waiting[w] = Tail(@),
                       !.a = seen(s.a, r)]

\* respond that returns after the first watcher of the waiting map.
respond_firstOnly(s, order) ==
    IF order = <<>> \/ s.a.panic # NoPanic THEN s
    ELSE respondOne(s, Head(order))

\* respond, ranging over the waiting map in the given order.
RECURSIVE respond(_, _)
respond(s, order) ==
    IF order = <<>> \/ s.a.panic # NoPanic THEN s
    ELSE respond(respondOne(s, Head(order)), Tail(order))

\* changed that does nothing when the fetch reports not-found.
changed_ignoresNotFound(a, id, res) ==
    IF res = NotFound THEN a
    ELSE IF res = ErrE THEN a
    ELSE update(a, id, Info(id, res))

changed(a, id, res) ==
    IF res = NotFound THEN markRemoved(a, id)
    ELSE IF res = ErrE THEN a
    ELSE update(a, id, Info(id, res))

\* ---------------------------------------------------------------- client
\* A client applies the deltas it is returned to its own map, in order.
RECURSIVE applyDeltas(_, _)
applyDeltas(m, ds) ==
    IF ds = <<>> THEN m
    ELSE LET d == Head(ds)
             id == entityIdForInfo(d.Entity)
         IN  applyDeltas([m EXCEPT ![id] = IF d.Removed THEN NoVal ELSE d.Entity.val], Tail(ds))

aliveIds(ds) == {entityIdForInfo(ds[i].Entity) : i \in {j \in DOMAIN ds : ~ds[j].Removed}}

Replies(o, w) == {i \in DOMAIN o : o[i].op = "Next" /\ o[i].ok /\ o[i].w = w}

MaxOf(S, d) == IF S = {} THEN d ELSE CHOOSE x \in S : \A y \in S : y <= x

\* ---------------------------------------------------------------- state
\* The worker when no run is in progress.
NoWorker ==
    [pc |-> "idle", st |-> FALSE, isMaster |-> FALSE, job |-> 0, attempt |-> 0,
     upgradeErr |-> ErrNil, failed |-> {}, done |-> {}]

\* NewUpgradeWorkerContext: the channel is open, nothing else is set.
NewUpgradeWorkerContext ==
    /\ jobs = <<>>
    /\ UpgradeComplete = "open"
    /\ upgradedTo = "old"
    /\ status = "none"
    /\ worker = NoWorker
    /\ runs = 0
    /\ returned = <<>>

AllInfo == [latestRevno |-> latestRevno, entities |-> entities, list |-> list, panic |-> NoPanic]

LoopState == [a |-> AllInfo, revno |-> revno, stopped |-> stopped, waiting |-> waiting, out |-> <<>>]

Init ==
    /\ phase = "new"
    /\ watching = FALSE
    /\ dying = FALSE
    /\ reason = ErrStillAlive
    /\ latestRevno = newAllInfo.latestRevno
    /\ entities = newAllInfo.entities
    /\ list = newAllInfo.list
    /\ revno = [w \in Watchers |-> 0]
    /\ stopped = [w \in Watchers |-> FALSE]
    /\ waiting = [w \in Watchers |-> <<>>]
    /\ out = <<>>
    /\ store = [id \in Ids |-> NotFound]
    /\ view = [w \in Watchers |-> [id \in Ids |-> NoVal]]
    /\ sawAlive = [w \in Watchers |-> {}]
    /\ hi = [w \in Watchers |-> 0]
    /\ NewUpgradeWorkerContext

\* The loop's state after a step, and what the clients made of the replies.
Commit(s) ==
    /\ latestRevno' = s.a.latestRevno
    /\ entities' = s.a.entities
    /\ list' = s.a.list
    /\ phase' = IF s.a.panic # NoPanic THEN "panicked" ELSE phase
    /\ revno' = s.revno
    /\ stopped' = s.stopped
    /\ waiting' = s.waiting
    /\ out' = s.out
    /\ view' = [w \in Watchers |->
                  IF Replies(s.out, w) = {} THEN view[w]
                  ELSE applyDeltas(view[w], s.out[CHOOSE i \in Replies(s.out, w) : TRUE].changes)]
    /\ sawAlive' = [w \in Watchers |->
                  sawAlive[w] \cup UNION {aliveIds(s.out[i].changes) : i \in Replies(s.out, w)}]
    /\ hi' = [w \in Watchers |->
                  MaxOf(UNION {Range(s.out[i].revs) : i \in Replies(s.out, w)} \cup {hi[w]}, 0)]

\* The tail of every iteration of the loop: respond, in some map order.
Respond(s) ==
    \E s1 \in {s} :
    \E order \in Perms({w \in Watchers : s1.waiting[w] # <<>>}) :
    \E s2 \in {respond(s1, order)} : Commit(s2)

\* run that kills the tomb before the loop has returned its error.
KillAndDone_dropsError(err) ==
    /\ phase' = "dead"
    /\ dying' = TRUE
    /\ reason' = IF reason = ErrStillAlive THEN ErrNil ELSE reason
    /\ watching' = FALSE
    /\ out' = <<LoopReturn(err)>>

\* loop that returns without unwatch.
KillAndDone_keepsWatching(err) ==
    /\ phase' = "dead"
    /\ dying' = TRUE
    /\ reason' = IF err # ErrDying /\ reason \in {ErrNil, ErrStillAlive} THEN err ELSE reason
    /\ watching' = watching
    /\ out' = <<LoopReturn(err)>>

\* loop returns err: unwatch, tomb.Kill(err), tomb.Done().  Kill keeps the
\* first reason that is not nil and ignores ErrDying.
KillAndDone(err) ==
    /\ phase' = "dead"
    /\ dying' = TRUE
    /\ reason' = IF err # ErrDying /\ reason \in {ErrNil, ErrStillAlive} THEN err ELSE reason
    /\ watching' = FALSE
    /\ out' = <<LoopReturn(err)>>

\* --------------------------------------------------------------- actions
\* run starts loop: the channel is registered before anything is loaded.
Run ==
    /\ phase = "new"
    /\ phase' = "loading"
    /\ watching' = TRUE
    /\ out' = <<>>
    /\ UNCHANGED <<dying, reason, latestRevno, entities, list, revno, stopped, waiting,
                   store, view, sawAlive, hi>>
    /\ UNCHANGED upvars

RECURSIVE addAll(_, _, _)
addAll(a, order, world) ==
    IF order = <<>> THEN a
    ELSE addAll(add(a, Head(order), Info(Head(order), world[Head(order)])), Tail(order), world)

\* backing.getAll loads the entities of the world into the empty allInfo.
GetAllOk ==
    /\ phase = "loading"
    /\ \E world \in [Ids -> Vals \cup {NotFound}] :
       \E order \in Perms({id \in Ids : world[id] # NotFound}) :
          LET a == addAll(AllInfo, order, world)
          IN  /\ latestRevno' = a.latestRevno
              /\ entities' = a.entities
              /\ list' = a.list
              /\ store' = world
    /\ phase' = "running"
    /\ out' = <<>>
    /\ UNCHANGED <<watching, dying, reason, revno, stopped, waiting, view, sawAlive, hi>>
    /\ UNCHANGED upvars

\* backing.getAll fails: loop returns the error.
GetAllFails ==
    /\ phase = "loading"
    /\ KillAndDone(ErrE)
    /\ UNCHANGED <<latestRevno, entities, list, revno, stopped, waiting, store,
                   view, sawAlive, hi>>
    /\ UNCHANGED upvars

\* case change := <-in, with a fetch that succeeds or reports not-found.
LoopChange(id, res, max) ==
    /\ phase = "running"
    /\ latestRevno < max
    /\ res \in Vals \cup {NotFound}
    /\ store' = [store EXCEPT ![id] = res]
    /\ Respond([LoopState EXCEPT !.a = changed(AllInfo, id, res)])
    /\ UNCHANGED <<watching, dying, reason>>
    /\ UNCHANGED upvars

\* case change := <-in, with a fetch that fails: loop returns the error.
LoopChangeFails(id) ==
    /\ phase = "running"
    /\ KillAndDone(ErrE)
    /\ UNCHANGED <<latestRevno, entities, list, revno, stopped, waiting, store,
                   view, sawAlive, hi>>
    /\ UNCHANGED upvars

\* A request is named after the order of arrival: one more than the newest
\* request of the watcher that is still outstanding.
NewRequest(w) == MaxOf(Range(waiting[w]), 0) + 1

\* case req := <-aw.request, sent by Next.
LoopNext(w) ==
    /\ phase = "running"
    /\ Len(waiting[w]) < MaxPending
    /\ Respond(handleNext(LoopState, w, NewRequest(w)))
    /\ UNCHANGED <<watching, dying, reason, store>>
    /\ UNCHANGED upvars

\* case req := <-aw.request, sent by Stop.
LoopStop(w) ==
    /\ phase = "running"
    /\ Respond(handleStop(LoopState, w))
    /\ UNCHANGED <<watching, dying, reason, store>>
    /\ UNCHANGED upvars

\* case <-aw.tomb.Dying(): loop returns tomb.ErrDying, which Kill ignores.
LoopDying ==
    /\ phase = "running"
    /\ dying
    /\ KillAndDone(ErrDying)
    /\ UNCHANGED <<latestRevno, entities, list, revno, stopped, waiting,
                   store, view, sawAlive, hi>>
    /\ UNCHANGED upvars

\* allWatcher.Stop: tomb.Kill(nil); the caller then waits for the loop.
AllWatcherStop ==
    /\ phase \in {"new", "loading", "running"}
    /\ ~dying
    /\ dying' = TRUE
    /\ reason' = IF reason = ErrStillAlive THEN ErrNil ELSE reason
    /\ out' = <<>>
    /\ UNCHANGED <<phase, watching, latestRevno, entities, list, revno, stopped, waiting,
                   store, view, sawAlive, hi>>
    /\ UNCHANGED upvars

\* Next finds the tomb dead before the loop takes its request.
NextDead(w) ==
    /\ phase = "dead"
    /\ out' = <<NextError(w, 0, IF reason = ErrNil THEN errWatcherStopped ELSE reason)>>
    /\ UNCHANGED <<phase, watching, dying, reason, latestRevno, entities, list, revno,
                   stopped, waiting, store, view, sawAlive, hi>>
    /\ UNCHANGED upvars

\* Stop finds the tomb dead before the loop takes its request.
StopDead(w) ==
    /\ phase = "dead"
    /\ out' = <<StopReturn(w, reason, stopped[w])>>
    /\ UNCHANGED <<phase, watching, dying, reason, latestRevno, entities, list, revno,
                   stopped, waiting, store, view, sawAlive, hi>>
    /\ UNCHANGED upvars

\* The loop from its start to its last iteration: no error, no Kill.  The
\* branches of the loop read neither the tomb nor the error of a later
\* fetch, so these are the steps of Next that change what the watchers and
\* the allInfo hold.
NextRunning ==
    \/ Run
    \/ GetAllOk
    \/ \E id \in Ids, res \in Vals \cup {NotFound} : LoopChange(id, res, MaxRevno)
    \/ \E w \in Watchers : LoopNext(w)
    \/ \E w \in Watchers : LoopStop(w)

\* The same, accepting MoreRevno more revisions.
NextDeep ==
    \/ Run
    \/ GetAllOk
    \/ \E id \in Ids, res \in Vals \cup {NotFound} : LoopChange(id, res, MaxRevno + MoreRevno)
    \/ \E w \in Watchers : LoopNext(w)
    \/ \E w \in Watchers : LoopStop(w)

Next ==
    \/ NextRunning
    \/ GetAllFails
    \/ \E id \in Ids : LoopChangeFails(id)
    \/ LoopDying
    \/ AllWatcherStop
    \/ \E w \in Watchers : NextDead(w)
    \/ \E w \in Watchers : StopDead(w)

\* The whole life of the loop, its end included, over a shorter history of
\* changes.
NextLife ==
    \/ Run
    \/ GetAllOk
    \/ \E id \in Ids, res \in Vals \cup {NotFound} : LoopChange(id, res, LifeRevno)
    \/ \E w \in Watchers : LoopNext(w)
    \/ \E w \in Watchers : LoopStop(w)
    \/ GetAllFails
    \/ \E id \in Ids : LoopChangeFails(id)
    \/ LoopDying
    \/ AllWatcherStop
    \/ \E w \in Watchers : NextDead(w)
    \/ \E w \in Watchers : StopDead(w)

Spec == Init /\ [][Next]_vars

SpecLife == Init /\ [][NextLife]_vars

SpecRunning == Init /\ [][NextRunning]_vars

SpecDeep == Init /\ [][NextDeep]_vars

\* Every goroutine that can take a step eventually takes one.
FairSpec == Spec /\ WF_vars(Next)

\* ------------------------------------------------------- upgrade worker
mwvars == <<phase, watching, dying, reason, latestRevno, entities, list, revno,
            stopped, waiting, out, store, view, sawAlive, hi>>

JobLists == UNION {[1..n -> Jobs] : n \in 0..MaxJobs}

upgradeTarget(job, isMaster) ==
    IF job = JobManageEnviron THEN (IF isMaster THEN DatabaseMaster ELSE StateServer)
    ELSE IF job = JobHostUnits THEN HostMachine
    ELSE NoTarget

needsState(js) == \E i \in DOMAIN js : js[i] = JobManageEnviron

\* isAPILostDuringUpgrade that takes every error for a lost connection.
isAPILostDuringUpgrade_anyError(err) == err # ErrNil

isAPILostDuringUpgrade(err) == err = ErrAPILost

\* close of a channel; a closed channel cannot be closed again.
close(ch) == IF ch = "open" THEN "closed" ELSE "panic"

\* What run returned.  err is its result; the rest is history: upgrades is
\* what runUpgrades returned ("skipped": run returned at the select,
\* "notrun": before runUpgrades), opened: a state was opened, recorded:
\* SetUpgradedToVersion was called, failed and done: the jobs whose target
\* failed every attempt, or succeeded.
RunReturn(err, upgrades, w, recorded) ==
    [err |-> err, upgrades |-> upgrades, opened |-> w.st, recorded |-> recorded,
     isMaster |-> w.isMaster, failed |-> w.failed, done |-> w.done]

\* run after runUpgrades has returned uerr: close UpgradeComplete on
\* success, return the error only when the API connection was lost.
runUpgradesReturned(uerr, w, recorded) ==
    /\ UpgradeComplete' = IF uerr = ErrNil THEN close(UpgradeComplete) ELSE UpgradeComplete
    /\ IF uerr = ErrNil /\ close(UpgradeComplete) = "panic"
       THEN /\ worker' = [NoWorker EXCEPT !.pc = "panicked"]
            /\ returned' = <<>>
       ELSE /\ worker' = NoWorker
            /\ returned' = <<RunReturn(IF uerr # ErrNil /\ isAPILostDuringUpgrade(uerr)
                                       THEN uerr ELSE ErrNil,
                                       uerr, w, recorded)>>

\* Worker: the agent hands over its jobs and starts run.
Worker(js) ==
    /\ worker.pc = "idle"
    /\ runs < MaxRuns
    /\ jobs' = js
    /\ worker' = [NoWorker EXCEPT !.pc = "run"]
    /\ runs' = runs + 1
    /\ returned' = <<>>
    /\ UNCHANGED <<UpgradeComplete, upgradedTo, status>>
    /\ UNCHANGED mwvars

\* run, case <-c.UpgradeComplete: the work is already done.
RunAlreadyComplete ==
    /\ worker.pc = "run"
    /\ UpgradeComplete # "open"
    /\ worker' = NoWorker
    /\ returned' = <<RunReturn(ErrNil, "skipped", worker, FALSE)>>
    /\ UNCHANGED <<jobs, UpgradeComplete, upgradedTo, status, runs>>
    /\ UNCHANGED mwvars

\* run, default: a state server has to open the state first.
RunBegin ==
    /\ worker.pc = "run"
    /\ UpgradeComplete = "open"
    /\ worker' = [worker EXCEPT !.pc = IF needsState(jobs) THEN "open" ELSE "runUpgrades"]
    /\ returned' = <<>>
    /\ UNCHANGED <<jobs, UpgradeComplete, upgradedTo, status, runs>>
    /\ UNCHANGED mwvars

\* ensureMongoServer, MongoInfo and state.Open succeed.
OpenState ==
    /\ worker.pc = "open"
    /\ worker' = [worker EXCEPT !.pc = "runUpgrades", !.st = TRUE]
    /\ returned' = <<>>
    /\ UNCHANGED <<jobs, UpgradeComplete, upgradedTo, status, runs>>
    /\ UNCHANGED mwvars

\* One of ensureMongoServer, MongoInfo and state.Open fails: run returns
\* the error.
OpenStateFails(err) ==
    /\ worker.pc = "open"
    /\ err \in {ErrMongo, ErrNoInfo, ErrOpen}
    /\ worker' = NoWorker
    /\ returned' = <<RunReturn(err, "notrun", worker, FALSE)>>
    /\ UNCHANGED <<jobs, UpgradeComplete, upgradedTo, status, runs>>
    /\ UNCHANGED mwvars

\* runUpgrades finds the agent upgraded to the current version already.
AlreadyUpgraded ==
    /\ worker.pc = "runUpgrades"
    /\ upgradedTo = "current"
    /\ runUpgradesReturned(ErrNil, worker, FALSE)
    /\ UNCHANGED <<jobs, upgradedTo, status, runs>>
    /\ UNCHANGED mwvars

\* isMachineMaster fails on the opened state: runUpgrades returns the error.
IsMachineMasterFails ==
    /\ worker.pc = "runUpgrades"
    /\ upgradedTo # "current"
    /\ worker.st
    /\ runUpgradesReturned(ErrMaster, worker, FALSE)
    /\ UNCHANGED <<jobs, upgradedTo, status, runs>>
    /\ UNCHANGED mwvars

\* isMachineMaster answers (false without a state) and ChangeConfig calls
\* the mutator, which sets the status and starts on the jobs.
ChangeConfigBegin(isMaster) ==
    /\ worker.pc = "runUpgrades"
    /\ upgradedTo # "current"
    /\ isMaster => worker.st
    /\ worker' = [worker EXCEPT !.pc = "jobs", !.isMaster = isMaster, !.job = 1,
                                !.attempt = 0, !.upgradeErr = ErrNil]
    /\ status' = "started: upgrading"
    /\ returned' = <<>>
    /\ UNCHANGED <<jobs, UpgradeComplete, upgradedTo, runs>>
    /\ UNCHANGED mwvars

\* The target of the job the mutator is at; NoTarget past the last job.
CurrentTarget ==
    IF worker.pc = "jobs" /\ worker.job <= Len(jobs)
    THEN upgradeTarget(jobs[worker.job], worker.isMaster)
    ELSE NoTarget

NextJob(w) == [w EXCEPT !.job = @ + 1, !.attempt = 0]

\* A job without a target: continue.
SkipJob ==
    /\ worker.pc = "jobs"
    /\ worker.job <= Len(jobs)
    /\ CurrentTarget = NoTarget
    /\ worker' = NextJob(worker)
    /\ returned' = <<>>
    /\ UNCHANGED <<jobs, UpgradeComplete, upgradedTo, status, runs>>
    /\ UNCHANGED mwvars

\* upgradesPerformUpgrade succeeds: break, on to the next job.
PerformUpgradeOk ==
    /\ worker.pc = "jobs"
    /\ CurrentTarget # NoTarget
    /\ worker' = NextJob([worker EXCEPT !.upgradeErr = ErrNil, !.done = @ \cup {worker.job}])
    /\ returned' = <<>>
    /\ UNCHANGED <<jobs, UpgradeComplete, upgradedTo, status, runs>>
    /\ UNCHANGED mwvars

\* upgradesPerformUpgrade fails with the API connection alive: the status
\* is set, and the attempt loop ends after Min attempts.
PerformUpgradeFails ==
    /\ worker.pc = "jobs"
    /\ CurrentTarget # NoTarget
    /\ LET w1 == [worker EXCEPT !.upgradeErr = ErrStep, !.attempt = @ + 1]
       IN  IF w1.attempt < Min
           THEN /\ worker' = w1
                /\ status' = "error: will retry"
           ELSE /\ worker' = NextJob([w1 EXCEPT !.failed = @ \cup {worker.job}])
                /\ status' = "error: giving up"
    /\ returned' = <<>>
    /\ UNCHANGED <<jobs, UpgradeComplete, upgradedTo, runs>>
    /\ UNCHANGED mwvars

\* upgradesPerformUpgrade fails and the API connection is dead: the mutator
\* returns apiLostDuringUpgrade, and so do ChangeConfig and runUpgrades.
ConnectionLost ==
    /\ worker.pc = "jobs"
    /\ CurrentTarget # NoTarget
    /\ runUpgradesReturned(ErrAPILost, [worker EXCEPT !.upgradeErr = ErrStep], FALSE)
    /\ UNCHANGED <<jobs, upgradedTo, status, runs>>
    /\ UNCHANGED mwvars

\* After the last job with upgradeErr set: the mutator returns it, and so
\* do ChangeConfig and runUpgrades.
MutatorFails ==
    /\ worker.pc = "jobs"
    /\ worker.job > Len(jobs)
    /\ worker.upgradeErr # ErrNil
    /\ runUpgradesReturned(worker.upgradeErr, worker, FALSE)
    /\ UNCHANGED <<jobs, upgradedTo, status, runs>>
    /\ UNCHANGED mwvars

\* After the last job with upgradeErr nil: SetUpgradedToVersion; then
\* ChangeConfig returns werr, nil or the error of writing the configuration.
MutatorSucceeds(werr) ==
    /\ worker.pc = "jobs"
    /\ worker.job > Len(jobs)
    /\ worker.upgradeErr = ErrNil
    /\ werr \in {ErrNil, ErrWrite}
    /\ upgradedTo' = "current"
    /\ status' = IF werr = ErrNil THEN "started" ELSE status
    /\ runUpgradesReturned(werr, worker, TRUE)
    /\ UNCHANGED <<jobs, runs>>
    /\ UNCHANGED mwvars

NextUpgrade ==
    \/ \E js \in JobLists : Worker(js)
    \/ RunAlreadyComplete
    \/ RunBegin
    \/ OpenState
    \/ \E err \in {ErrMongo, ErrNoInfo, ErrOpen} : OpenStateFails(err)
    \/ AlreadyUpgraded
    \/ IsMachineMasterFails
    \/ \E isMaster \in BOOLEAN : ChangeConfigBegin(isMaster)
    \/ SkipJob
    \/ PerformUpgradeOk
    \/ PerformUpgradeFails
    \/ ConnectionLost
    \/ MutatorFails
    \/ \E werr \in {ErrNil, ErrWrite} : MutatorSucceeds(werr)

SpecUpgrade == Init /\ [][NextUpgrade]_vars

\* ================================================================ claims
OkReplies(o) == {i \in DOMAIN o : o[i].op = "Next" /\ o[i].ok}

Present(v) == IF v = NotFound THEN NoVal ELSE v

\* The watchers the loop has not stopped.
Live == {w \in Watchers : ~stopped[w]}

\* C1: a Next never returns a delta with Removed = true for an id that no
\* earlier Next of the same watcher returned with Removed = false.
C1_NoFalseBirth ==
    [][\A i \in OkReplies(out') : \A k \in DOMAIN out'[i].changes :
          out'[i].changes[k].Removed
              => entityIdForInfo(out'[i].changes[k].Entity) \in sawAlive[out'[i].w]]_vars

\* C4: an entry marked removed leaves the allInfo only when every live
\* watcher that was returned the entity alive has been returned its removal.
C4_PurgeWaitsForAll ==
    [][\A id \in Ids :
          (/\ entities[id] # Nil
           /\ Elem(list, entities[id]).removed
           /\ entities'[id] = Nil)
          => \A w \in Watchers : ~stopped'[w] => view'[w][id] = NoVal]_vars

\* C5: right after a Next returns, the map the client has built from all
\* its deltas is the map the backing last reported to the loop.
C5_DeltaCompleteness ==
    \A i \in OkReplies(out) : \A id \in Ids : view[out[i].w][id] = Present(store[id])

\* C6: every entry's refCount is the number of live watchers that are at or
\* past its creation and, when it is removed, before its removal.
Holders(e) ==
    {w \in Live : revno[w] >= e.creationRevno /\ (~e.removed \/ revno[w] < e.revno)}

C6_RefCountAccurate ==
    \A i \in DOMAIN list : list[i].refCount = Cardinality(Holders(list[i]))

\* C3: a Next that the loop has queued is blocked in <-req.reply; when the
\* loop is dead, every such Next eventually returns.
Blocked(w) == Range(waiting[w])

C3_PendingReleased ==
    \A w \in Watchers : (phase = "dead" /\ Blocked(w) # {}) ~> (Blocked(w) = {})

\* C2: the k-th successful Next of a watcher returns the entries whose revno
\* lies in (r_{k-1}, r_k], r_0 = 0 and r_k the latestRevno at the reply,
\* oldest first and without those created and removed in between; a
\* watcher's revno never decreases and no entry change is returned twice.
DeltaIds(ds) == {entityIdForInfo(ds[k].Entity) : k \in DOMAIN ds}

C2_Reply(r) ==
    LET w == r.w IN
    /\ hi[w] = 0 => revno[w] = 0
    /\ revno'[w] = latestRevno'
    /\ Len(r.revs) = Len(r.changes)
    /\ \A k \in DOMAIN r.revs : revno[w] < r.revs[k] /\ r.revs[k] <= revno'[w]
    /\ \A k \in DOMAIN r.revs : hi[w] < r.revs[k]
    /\ \A k \in DOMAIN r.revs : k > 1 => r.revs[k - 1] < r.revs[k]
    /\ \A j \in DOMAIN list' :
          (list'[j].revno > revno[w]
              /\ ~(list'[j].removed /\ list'[j].creationRevno > revno[w]))
          => \E k \in DOMAIN r.revs : /\ r.revs[k] = list'[j].revno
                                      /\ r.changes[k] = Delta(list'[j])

C2_DisjointWindows ==
    [][/\ \A w \in Watchers : revno[w] <= revno'[w]
       /\ \A i \in OkReplies(out') : C2_Reply(out'[i])]_vars

\* A second Next has returned: the client knows an id from an earlier reply.
C2_Witness ==
    \E i \in OkReplies(out) : sawAlive[out[i].w] \ DeltaIds(out[i].changes) # {}

\* C7: the allInfo holds no entry that is removed and unreferenced, and the
\* list and the map hold the same entries.
C7_NoGhost ==
    /\ \A i \in DOMAIN list : ~(list[i].removed /\ list[i].refCount = 0)
    /\ \A i \in DOMAIN list : entities[entityIdForInfo(list[i].info)] = list[i].creationRevno
    /\ \A id \in Ids : entities[id] # Nil => \E i \in DOMAIN list : list[i].creationRevno = entities[id]
    /\ \A i, j \in DOMAIN list : list[i].creationRevno = list[j].creationRevno => i = j

\* A removed entry is kept for the one watcher that still refers to it,
\* after another watcher has been told of the removal.
C7_Witness ==
    \E i \in DOMAIN list :
        /\ list[i].removed
        /\ list[i].refCount = 1
        /\ \E w \in Watchers : /\ entityIdForInfo(list[i].info) \in sawAlive[w]
                                /\ view[w][entityIdForInfo(list[i].info)] = NoVal

\* C8: a Next that succeeds returns at least one delta; a watcher that is
\* not replied to keeps its revno and its queued requests.
C8_NeverEmpty ==
    [][/\ \A i \in OkReplies(out') : out'[i].changes # <<>>
       /\ \A w \in Watchers : Replies(out', w) = {} =>
             /\ revno'[w] = revno[w]
             /\ ~stopped'[w] => \A q \in Range(waiting[w]) : q \in Range(waiting'[w])]_vars

\* A watcher waits although the list holds entries newer than its revno:
\* all of them were created and removed since.
C8_Witness ==
    \E w \in Watchers :
        /\ waiting[w] # <<>>
        /\ \E i \in DOMAIN list : list[i].revno > revno[w]
        /\ \A i \in DOMAIN list :
              list[i].revno > revno[w] => list[i].removed /\ list[i].creationRevno > revno[w]

\* C9: from the step that handles a watcher's stop on, no Next of that
\* watcher returns deltas; that step replies false to each of its
\* outstanding requests and takes it out of the waiting map.
StoppedReplies(o, w) ==
    {i \in DOMAIN o : o[i].op = "Next" /\ o[i].w = w /\ ~o[i].ok /\ o[i].err = errWatcherStopped}

C9_NoDeltaAfterStop ==
    [][\A w \in Watchers :
          /\ stopped[w] => stopped'[w]
          /\ stopped'[w] => waiting'[w] = <<>> /\ Replies(out', w) = {}
          /\ (~stopped[w] /\ stopped'[w]) =>
                /\ {out'[i].req : i \in StoppedReplies(out', w)} = Range(waiting[w])
                /\ Cardinality(StoppedReplies(out', w)) = Len(waiting[w])]_vars

\* A stop has just released two outstanding Next requests.
C9_Witness ==
    \E w \in Watchers :
        /\ stopped[w]
        /\ \E i \in DOMAIN out : out[i].op = "Stop" /\ out[i].w = w
        /\ Cardinality(StoppedReplies(out, w)) = 2

\* C10: the step that stops a live watcher decrements by one the refCount of
\* every entry the watcher refers to, deletes the removed ones that reach 0
\* and leaves every other entry as it was.
HoldsRef(e, r) == e.creationRevno <= r /\ ~(e.removed /\ e.revno <= r)

Released(l, r) ==
    LET kept == SelectSeq(l, LAMBDA e : ~(HoldsRef(e, r) /\ e.removed /\ e.refCount = 1))
    IN  [i \in DOMAIN kept |->
            IF HoldsRef(kept[i], r) THEN [kept[i] EXCEPT !.refCount = @ - 1] ELSE kept[i]]

C10_StopReleases ==
    [][\A w \in Watchers : (~stopped[w] /\ stopped'[w]) =>
          /\ list' = Released(list, revno[w])
          /\ entities' = [id \in Ids |->
                IF \E i \in DOMAIN list' : list'[i].creationRevno = entities[id]
                THEN entities[id] ELSE Nil]
          /\ latestRevno' = latestRevno
          /\ phase' = phase]_vars

\* A stop has purged a removed entry the watcher had not been told about,
\* and has left an entry that is alive.
C10_Witness ==
    \E w \in Watchers :
        /\ stopped[w]
        /\ \E i \in DOMAIN out : out[i].op = "Stop" /\ out[i].w = w
        /\ \E id \in Ids : view[w][id] # NoVal /\ store[id] = NotFound /\ entities[id] = Nil
        /\ \E i \in DOMAIN list : /\ ~list[i].removed
                                  /\ list[i].refCount = 0
                                  /\ view[w][entityIdForInfo(list[i].info)] # NoVal

\* C11: a Next request the loop takes for a watcher that is stopped already
\* returns the watcher-stopped error in the same step and is not queued;
\* the allInfo with its refCounts, the waiting map and the revnos stay as
\* they were, and nothing else returns.
NextOf(o, w) == {i \in DOMAIN o : o[i].op = "Next" /\ o[i].w = w}

C11_StoppedRejected ==
    [][\A w \in Watchers :
          /\ stopped[w] => waiting'[w] = <<>>
          /\ (stopped[w] /\ NextOf(out', w) # {}) =>
                /\ Len(out') = 1
                /\ ~out'[1].ok /\ out'[1].changes = <<>> /\ out'[1].err = errWatcherStopped
                /\ waiting' = waiting
                /\ UNCHANGED <<latestRevno, entities, list, revno, stopped, phase>>]_vars

\* A stopped watcher's Next has just been rejected while the allInfo holds
\* a referenced entry and the other watcher has a request queued.
C11_Witness ==
    \E w \in Watchers :
        /\ stopped[w]
        /\ Len(out) = 1 /\ out[1].op = "Next" /\ out[1].w = w /\ ~out[1].ok
        /\ revno[w] > 0
        /\ \E i \in DOMAIN list : list[i].refCount > 0
        /\ \E v \in Watchers : waiting[v] # <<>>

\* C12: a Stop the loop takes for a watcher that is stopped already returns
\* nil and changes nothing: no refCount moves, no entry is deleted, no Next
\* is replied to.
StopOf(o, w) == {i \in DOMAIN o : o[i].op = "Stop" /\ o[i].w = w}

C12_StopIdempotent ==
    [][\A w \in Watchers : (stopped[w] /\ StopOf(out', w) # {}) =>
          /\ Len(out') = 1
          /\ out'[1].err = ErrNil
          /\ UNCHANGED <<latestRevno, entities, list, revno, stopped, waiting, phase>>]_vars

\* A second Stop has returned for a watcher that had been delivered entries
\* another watcher still refers to.
C12_Witness ==
    \E w \in Watchers :
        /\ stopped[w]
        /\ Len(out) = 1 /\ out[1].op = "Stop" /\ out[1].w = w /\ out[1].again
        /\ revno[w] > 0
        /\ \E i \in DOMAIN list : list[i].refCount > 0 /\ list[i].creationRevno <= revno[w]

\* C13: a getAll or a fetch that fails with E ends the loop with E; a dead
\* loop processes nothing more, and every Next issued after its death
\* returns no deltas and E, or the watcher-stopped error when the loop ended
\* on allWatcher.Stop alone.
LoopReturns(o) == {i \in DOMAIN o : o[i].op = "loop"}

C13_ErrorSurfaced ==
    [][/\ \A i \in LoopReturns(out') :
             /\ phase # "dead" /\ phase' = "dead"
             /\ out'[i].err = ErrE => reason' = ErrE
             /\ out'[i].err = ErrDying => reason' = ErrNil
             /\ phase = "loading" => out'[i].err = ErrE
             /\ UNCHANGED <<latestRevno, entities, list, revno, stopped, waiting>>
       /\ phase = "dead" =>
             /\ UNCHANGED <<phase, reason, latestRevno, entities, list, revno, stopped, waiting>>
             /\ \A w \in Watchers : \A i \in NextOf(out', w) :
                   /\ ~out'[i].ok
                   /\ out'[i].changes = <<>>
                   /\ out'[i].err = IF reason = ErrNil THEN errWatcherStopped ELSE ErrE]_vars

\* A Next issued after a fetch failed returns E: the loop held loaded
\* entries when it died.
C13_Witness ==
    /\ phase = "dead"
    /\ reason = ErrE
    /\ list # <<>>
    /\ Len(out) = 1 /\ out[1].op = "Next" /\ out[1].err = ErrE

\* C14: when updates, and no removal, were processed for an id since the
\* previous Next reply of a watcher that has seen the id, and one of them
\* changed the stored payload, the watcher's next reply holds exactly one
\* delta for the id: not removed, with the last payload.
DeltasOf(ds, id) == {k \in DOMAIN ds : entityIdForInfo(ds[k].Entity) = id}

C14_Coalescing ==
    \A i \in OkReplies(out) : \A id \in out[i].upd :
        /\ Cardinality(DeltasOf(out[i].changes, id)) = 1
        /\ \A k \in DeltasOf(out[i].changes, id) :
              out[i].changes[k] = [Removed |-> FALSE, Entity |-> Info(id, store[id])]

EntriesOf(l, id) == {i \in DOMAIN l : entityIdForInfo(l[i].info) = id}

C16_RoundTrip ==
    [][/\ \A id \in Ids :
             (/\ entities[id] # Nil
              /\ Elem(list, entities[id]).refCount = 0
              /\ ~Elem(list, entities[id]).removed
              /\ store[id] # NotFound
              /\ store'[id] = NotFound)
             => /\ entities'[id] = Nil
                /\ EntriesOf(list', id) = {}
                /\ latestRevno' = latestRevno + 1
                /\ \A i \in OkReplies(out') : id \notin DeltaIds(out'[i].changes)
       /\ \A id \in Ids :
             entities[id] = Nil => id \notin DeltaIds(changesSince(AllInfo, 0))
       /\ (list = <<>> /\ latestRevno' = latestRevno) => OkReplies(out') = {}]_vars

\* Entities have been added and removed again and no watcher has ever been
\* returned anything: the allInfo is empty, and the Next a watcher issued
\* afterwards is queued.
C16_Witness ==
    /\ latestRevno >= 2
    /\ list = <<>>
    /\ \A id \in Ids : entities[id] = Nil
    /\ \A w \in Watchers : hi[w] = 0 /\ revno[w] = 0
    /\ \E w \in Watchers : waiting[w] # <<>> /\ ~stopped[w]

\* C17: the request of a watcher that a respond pass replies true to is the
\* oldest of the watcher's outstanding requests, the one the loop accepted
\* first (requests are named in the order the loop accepts them).
C17_OldestFirst ==
    [][\A i \in OkReplies(out') : \A q \in Range(waiting[out'[i].w]) : out'[i].req <= q]_vars

\* C18: the list is strictly descending by revno from front to back, so no
\* two entries share a revno.
C18_FrontOrdering ==
    \A i \in DOMAIN list : \A j \in DOMAIN list : i < j => list[i].revno > list[j].revno

\* The entry at the front was created before the one behind it: an update
\* or a removal has moved it there.
C18_Witness ==
    /\ Len(list) >= 2
    /\ list[1].creationRevno < list[2].creationRevno
    /\ ~list[1].removed

\* C19: latestRevno never decreases.  The step that processes fetch(id) =
\* res raises it by exactly one when it adds the id, when it updates it with
\* a different payload, and when it removes an id that is present and not
\* yet removed (also when the entry is deleted outright); it leaves it
\* unchanged when the payload is equal or the id is absent or removed
\* already.  A step that handles a request, with its seen, leave and decRef,
\* leaves it unchanged.
Bump(id, res) ==
    IF entities[id] = Nil THEN (IF res = NotFound THEN 0 ELSE 1)
    ELSE IF res = NotFound THEN (IF Elem(list, entities[id]).removed THEN 0 ELSE 1)
    ELSE IF Elem(list, entities[id]).info = Info(id, res) THEN 0 ELSE 1

\* The step handled a request: one more is queued, a Stop returned, or a
\* Next returned that was not queued before.
RequestStep ==
    \E w \in Watchers :
        \/ Len(waiting'[w]) > Len(waiting[w])
        \/ StopOf(out', w) # {}
        \/ \E i \in NextOf(out', w) : out'[i].req \notin Range(waiting[w])

C19_MonotoneRevno ==
    [][/\ latestRevno' >= latestRevno
       /\ phase = "loading" => latestRevno' = Len(list')
       /\ phase = "running" =>
             IF RequestStep THEN latestRevno' = latestRevno
             ELSE \E id \in Ids : \E res \in Vals \cup {NotFound} :
                     /\ store' = [store EXCEPT ![id] = res]
                     /\ latestRevno' = latestRevno + Bump(id, res)]_vars

\* A removal has raised latestRevno and deleted its entry outright: no
\* watcher has been returned anything, and latestRevno is above every revno
\* left in the list.
C19_Witness ==
    /\ list # <<>>
    /\ list[1].revno < latestRevno
    /\ \A w \in Watchers : hi[w] = 0

\* C20 as stated: latestRevno is the largest revno over the entries, and 0
\* when the allInfo holds none.
C20_LatestIsMax ==
    latestRevno = MaxOf({list[i].revno : i \in DOMAIN list}, 0)

\* C20 as amended: no entry's revno is above latestRevno, and every revno an
\* add, update or markRemoved gives to an entry is the latestRevno of that
\* moment.
SameEntry(e1, e2) ==
    /\ e1.creationRevno = e2.creationRevno
    /\ e1.revno = e2.revno
    /\ e1.removed = e2.removed
    /\ e1.info = e2.info

C20_LatestBoundsRevnos ==
    [][/\ \A i \in DOMAIN list' : 1 <= list'[i].revno /\ list'[i].revno <= latestRevno'
       /\ phase = "running" =>
             \A i \in DOMAIN list' :
                 \/ \E j \in DOMAIN list : SameEntry(list[j], list'[i])
                 \/ list'[i].revno = latestRevno']_vars

\* The allInfo has been emptied by a purge, after a watcher was returned
\* the last removal, and latestRevno stays where it was.
C20_Witness ==
    /\ list = <<>>
    /\ latestRevno > 0
    /\ \E w \in Watchers : hi[w] = latestRevno /\ sawAlive[w] # {}

\* C21: for every revno r, changesSince(r) is the sequence of the entries
\* with revno > r, without those that are removed and were created after r,
\* in ascending order of revno, each as the delta (removed, info); it is
\* empty when no entry is newer than r.
Deliverable(l, r) ==
    {e \in Range(l) : e.revno > r /\ ~(e.removed /\ e.creationRevno > r)}

Ascending(S) ==
    CHOOSE f \in Perms(S) : \A i, j \in DOMAIN f : i < j => f[i].revno < f[j].revno

Reference(l, r) ==
    LET es == Ascending(Deliverable(l, r)) IN [i \in DOMAIN es |-> Delta(es[i])]

C21_ChangesSinceReference ==
    \A r \in 0..latestRevno :
        /\ changesSince(AllInfo, r) = Reference(list, r)
        /\ (\A i \in DOMAIN list : list[i].revno <= r) => changesSince(AllInfo, r) = <<>>

\* From some revno on, changesSince reports two entries, the older change
\* first; one of them is the removal of an entry created at or before it.
C21_Witness ==
    \E r \in 0..latestRevno :
        /\ Len(changesSince(AllInfo, r)) = 2
        /\ \E i \in DOMAIN list : list[i].removed /\ list[i].creationRevno <= r /\ list[i].revno > r

\* C22: a loop step replies true to at most one request of a watcher.  With
\* that reply the watcher's revno becomes latestRevno and the deltas are new
\* to it; its other requests stay queued, in their order (the watcher is in
\* the waiting map as long as one is left), and a request that was queued
\* is replied to only in a step that makes a new revision.
Without(q, x) == SelectSeq(q, LAMBDA y : y # x)

C22_OneReplyPerPass ==
    [][\A w \in Watchers :
          /\ Cardinality(Replies(out', w)) <= 1
          /\ \A i \in Replies(out', w) :
                /\ revno'[w] = latestRevno'
                /\ out'[i].changes # <<>>
                /\ \A k \in DOMAIN out'[i].revs : out'[i].revs[k] > revno[w]
                /\ waiting'[w] = Without(waiting[w], out'[i].req)
                /\ out'[i].req \in Range(waiting[w]) => latestRevno' > latestRevno
                /\ out'[i].req \notin Range(waiting[w]) => waiting[w] = <<>>]_vars

\* A watcher with two requests queued has been replied to once: the other
\* request is still queued.
C22_Witness ==
    \E i \in OkReplies(out) : waiting[out[i].w] # <<>> /\ revno[out[i].w] = latestRevno

\* C23: the step in which fetch reports not-found for an id the backing had
\* reported present is a markRemoved: the loop stays alive and returns
\* nothing, latestRevno moves as markRemoved moves it and the id is absent
\* or marked removed afterwards.  The running loop ends only by returning the
\* error of a fetch or, once the tomb is dying, ErrDying, and that step
\* leaves the allInfo as it was.
C23_NotFoundIsRemoval ==
    [][/\ \A id \in Ids :
             (phase = "running" /\ store[id] # NotFound /\ store'[id] = NotFound) =>
                /\ phase' = "running"
                /\ LoopReturns(out') = {}
                /\ latestRevno' = latestRevno + Bump(id, NotFound)
                /\ IF entities'[id] = Nil THEN EntriesOf(list', id) = {}
                   ELSE Elem(list', entities'[id]).removed
       /\ (phase = "running" /\ phase' # "running") =>
             /\ phase' = "dead"
             /\ \E i \in LoopReturns(out') :
                   \/ out'[i].err = ErrE
                   \/ out'[i].err = ErrDying /\ dying
             /\ UNCHANGED <<latestRevno, entities, list, store>>]_vars

\* After a not-found the loop has gone on to serve a request: the removed
\* entry is kept for a watcher that saw it alive, and the Next of a watcher
\* that has never been replied to is queued, which the loop took after the
\* removal (before it, the entry would have been returned to it).
C23_Witness ==
    /\ phase = "running"
    /\ \E id \in Ids :
          /\ store[id] = NotFound
          /\ entities[id] # Nil
          /\ Elem(list, entities[id]).removed
          /\ \E w \in Watchers : view[w][id] # NoVal
    /\ \E w \in Watchers : hi[w] = 0 /\ waiting[w] # <<>>

\* C24: the loop's channel is registered with the backing from before the
\* initial load until the loop ends, and never once the loop is dead; until
\* getAll has returned successfully no change is processed and no request
\* is taken.
Untouched ==
    /\ \A w \in Watchers : revno[w] = 0 /\ ~stopped[w] /\ waiting[w] = <<>>
    /\ \A id \in Ids : store[id] = NotFound
    /\ latestRevno = 0 /\ list = <<>>

C24_WatchBeforeLoad ==
    [][/\ phase \in {"loading", "running"} => watching
       /\ phase \in {"new", "dead"} => ~watching
       /\ phase' = "dead" => ~watching'
       /\ phase \in {"new", "loading"} =>
             /\ Untouched
             /\ \A i \in DOMAIN out' : out'[i].op = "loop"
             /\ phase' # "running" => Untouched'
             /\ phase' \in (IF phase = "new" THEN {"new", "loading"}
                                           ELSE {"loading", "running", "dead"})
             /\ (phase = "new" /\ phase' # "new") => phase' = "loading" /\ watching'
             /\ (phase' = "dead") => \E i \in LoopReturns(out') : out'[i].err = ErrE]_vars

\* The loop has ended on allWatcher.Stop after a load that found entities,
\* and its channel is no longer registered.
C24_Witness ==
    /\ phase = "dead"
    /\ ~watching
    /\ reason = ErrNil
    /\ list # <<>>
    /\ LoopReturns(out) # {}

C26_RemoveNoop ==
    [][\A id \in Ids :
          (entities[id] = Nil \/ Elem(list, entities[id]).removed) =>
              /\ markRemoved(AllInfo, id) = AllInfo
              /\ LoopChange(id, NotFound, MaxRevno) =>
                    /\ UNCHANGED <<latestRevno, entities, list, revno, waiting>>
                    /\ out' = <<>>]_vars

\* A repeated not-found notification has just been processed while an
\* entry flagged removed is kept for a watcher that has not been told: the
\* last step returned nothing, nothing is queued or stopped, the store
\* holds nothing and a watcher is at the latest revno.
C26_Witness ==
    /\ phase = "running"
    /\ out = <<>>
    /\ \A w \in Watchers : ~stopped[w] /\ waiting[w] = <<>>
    /\ \A id \in Ids : store[id] = NotFound
    /\ \E i \in DOMAIN list : list[i].removed /\ list[i].refCount > 0
    /\ \E w \in Watchers : revno[w] = latestRevno

\* C27: every entry has 1 <= creationRevno <= revno <= latestRevno, and as
\* long as an id keeps its entry the entry's creationRevno stays what it
\* was and its revno does not fall.
C27_CreationRevno ==
    [][/\ \A i \in DOMAIN list :
             /\ 1 <= list[i].creationRevno
             /\ list[i].creationRevno <= list[i].revno
             /\ list[i].revno <= latestRevno
       /\ \A i \in DOMAIN list' :
             /\ 1 <= list'[i].creationRevno
             /\ list'[i].creationRevno <= list'[i].revno
             /\ list'[i].revno <= latestRevno'
       /\ \A id \in Ids :
             (entities[id] # Nil /\ entities'[id] # Nil) =>
                 /\ Elem(list', entities'[id]).creationRevno = Elem(list, entities[id]).creationRevno
                 /\ Elem(list', entities'[id]).revno >= Elem(list, entities[id]).revno]_vars

\* An entry created by the initial load has been changed since and sent
\* to a watcher, and a later revision has been counted: the three revnos
\* differ.
C27_Witness ==
    \E i \in DOMAIN list :
        /\ list[i].creationRevno = 1
        /\ list[i].revno > 1
        /\ list[i].revno < latestRevno
        /\ \E w \in Watchers : revno[w] >= list[i].revno

\* C28: while the loop runs, an id the backing store holds has an entry
\* that is not flagged removed and carries the stored payload, and no Next
\* is returned a delta with Removed = true for an id the store holds.
C28_LiveNotRemoved ==
    phase = "running" =>
        /\ \A id \in Ids :
              store[id] # NotFound =>
                  /\ entities[id] # Nil
                  /\ ~Elem(list, entities[id]).removed
                  /\ Elem(list, entities[id]).info = Info(id, store[id])
        /\ \A i \in OkReplies(out) : \A k \in DOMAIN out[i].changes :
              out[i].changes[k].Removed =>
                  store[entityIdForInfo(out[i].changes[k].Entity)] = NotFound

\* C29: at the end of every loop step no watcher with a queued Next has
\* changes since its revno; a watcher that had a Next queued when the step
\* began, and for which the step left changes since its old revno, is
\* returned a Next in that step.
C29_NothingLeftWaiting ==
    [][\A w \in Watchers :
          /\ waiting[w] # <<>> => changesSince(AllInfo, revno[w]) = <<>>
          /\ waiting'[w] # <<>> => changesSince(AllInfo', revno'[w]) = <<>>
          /\ (waiting[w] # <<>> /\ changesSince(AllInfo', revno[w]) # <<>>) =>
                Replies(out', w) # {}]_vars

\* One loop step has answered both watchers, and one of them still has a
\* Next queued.
C29_Witness ==
    /\ \A w \in Watchers : Replies(out, w) # {}
    /\ \E w \in Watchers : waiting[w] # <<>> /\ revno[w] = latestRevno

\* C30: the loop never panics: no step ends in "negative reference count",
\* "delete of non-existent entry" or "adding new entry with duplicate id".
\* What these panics guard holds throughout: no refCount is negative, an
\* entry flagged removed has a positive refCount, and the map and the list
\* hold the same entries, one per id.
C30_NoPanic ==
    /\ phase # "panicked"
    /\ \A i \in DOMAIN list :
          /\ list[i].refCount >= 0
          /\ list[i].removed => list[i].refCount > 0
          /\ entities[entityIdForInfo(list[i].info)] = list[i].creationRevno
    /\ \A id \in Ids :
          /\ Cardinality(EntriesOf(list, id)) <= 1
          /\ entities[id] # Nil => EntriesOf(list, id) # {}

\* A watcher that had been sent a live entity has stopped and its
\* reference has been dropped: the entry is alive with refCount 0; and an
\* entry flagged removed has been purged after its last reference went.
C30_Witness ==
    /\ phase = "running"
    /\ \E w \in Watchers : \E i \in DOMAIN list :
          /\ stopped[w]
          /\ entityIdForInfo(list[i].info) \in sawAlive[w]
          /\ list[i].creationRevno <= revno[w]
          /\ ~list[i].removed
          /\ list[i].refCount = 0
    /\ \E w \in Watchers : \E id \in sawAlive[w] : entities[id] = Nil

\* C31: a watcher starts with revno 0 and not stopped; its revno never
\* exceeds latestRevno and changes only in a step that returns changes to
\* one of its Next calls, to the latestRevno of that step, which is higher;
\* its stopped flag changes only from false to true, in the step that
\* returns its Stop; a step in which the loop takes or answers a Next or
\* Stop of one watcher, and no change, leaves the revno and the stopped flag
\* of every other watcher as they were.
OwnCall(w) ==
    /\ phase = "running"
    /\ latestRevno' = latestRevno
    /\ waiting'[w] # waiting[w] \/ NextOf(out', w) # {} \/ StopOf(out', w) # {}

C31_WatcherBookkeeping ==
    [][\A w \in Watchers :
          /\ phase \in {"new", "loading"} => revno[w] = 0 /\ ~stopped[w]
          /\ revno[w] <= latestRevno /\ revno'[w] <= latestRevno'
          /\ revno'[w] # revno[w] =>
                /\ Replies(out', w) # {}
                /\ revno'[w] = latestRevno'
                /\ revno'[w] > revno[w]
          /\ Replies(out', w) # {} => revno'[w] = latestRevno'
          /\ stopped'[w] # stopped[w] =>
                /\ ~stopped[w] /\ stopped'[w]
                /\ \E i \in StopOf(out', w) : ~out'[i].again
          /\ OwnCall(w) =>
                \A v \in Watchers \ {w} :
                    revno'[v] = revno[v] /\ stopped'[v] = stopped[v]]_vars

\* A Next has returned to a watcher, after a removal that left no entry at
\* the latest revno, while the other watcher is stopped at an older revno.
C31_Witness ==
    \E w \in Watchers : \E v \in Watchers \ {w} :
        /\ Replies(out, w) # {}
        /\ revno[w] = latestRevno
        /\ \A i \in DOMAIN list : list[i].revno < latestRevno
        /\ stopped[v] /\ revno[v] > 0 /\ revno[v] < latestRevno

\* C32: a run records the upgraded-to version with runUpgrades returning nil
\* only when no target failed all its attempts and every job with a target
\* succeeded; a run in which some target failed all its attempts records
\* nothing and runUpgrades returns an error.
Applicable(r) == {k \in DOMAIN jobs : upgradeTarget(jobs[k], r.isMaster) # NoTarget}

C32_RecordedOnlyOnSuccess ==
    [][\A i \in DOMAIN returned' :
          LET r == returned'[i]
          IN  /\ (r.recorded /\ r.upgrades = ErrNil) =>
                    /\ r.failed = {}
                    /\ r.done = Applicable(r)
              /\ r.failed # {} =>
                    /\ ~r.recorded
                    /\ upgradedTo' = upgradedTo
                    /\ r.upgrades \in {ErrStep, ErrAPILost}]_vars

\* C33: UpgradeComplete is closed in exactly the steps in which runUpgrades
\* returns nil, is never closed twice and never reopened; a run started
\* once it is closed returns nil, having opened no state and run no step;
\* when runUpgrades fails, run returns that error if it is the lost API
\* connection and nil otherwise, and UpgradeComplete stays open.
C33_CompletionSignal ==
    [][/\ UpgradeComplete' # "panic"
       /\ worker'.pc # "panicked"
       /\ (UpgradeComplete # UpgradeComplete') <=>
             (\E i \in DOMAIN returned' : returned'[i].upgrades = ErrNil)
       /\ UpgradeComplete = "closed" =>
             /\ UNCHANGED <<UpgradeComplete, upgradedTo, status>>
             /\ worker.pc \in {"idle", "run"}
             /\ worker'.pc \in {"idle", "run"}
             /\ \A i \in DOMAIN returned' :
                   /\ returned'[i].err = ErrNil
                   /\ returned'[i].upgrades = "skipped"
                   /\ ~returned'[i].opened
                   /\ returned'[i].done = {} /\ returned'[i].failed = {}
       /\ \A i \in DOMAIN returned' :
             returned'[i].upgrades \notin {ErrNil, "skipped", "notrun"} =>
                 /\ returned'[i].err = IF returned'[i].upgrades = ErrAPILost
                                       THEN ErrAPILost ELSE ErrNil
                 /\ UpgradeComplete' = "open"
                 /\ UpgradeComplete = "open"]_vars

\* A worker given a state-server job was started after UpgradeComplete had
\* been closed, and its run has returned nil without opening the state.
C33_Witness ==
    /\ UpgradeComplete = "closed"
    /\ needsState(jobs)
    /\ runs > 1
    /\ Len(returned) = 1
    /\ returned[1].upgrades = "skipped"
    /\ returned[1].err = ErrNil
    /\ ~returned[1].opened

====
